---------------------------- MODULE Spec2Model ----------------------------
(***************************************************************************)
(* A model of rmp-rpc: the MessagePack-RPC message codec (src/message.rs)  *)
(* and the per-connection protocol engine (src/server.rs).                 *)
(*                                                                         *)
(* Integers wider than TLC's 32-bit integers are kept as big-endian byte   *)
(* sequences: a u64/i64 is 8 bytes (two's complement), a u32 is 4 bytes.   *)
(***************************************************************************)
EXTENDS Integers, Sequences, FiniteSets, TLC

(***************************************************************************)
(* Bounds of the model.                                                    *)
(***************************************************************************)
\* longest outer array handed to Message::decode
MaxArrayLen == 4

\* longest params list of a packed Request or Notification
MaxParams == 2

\* most messages one connection receives
MaxInbound == 3

\* number of queued messages at which the sink of the connection refuses
\* another one (BACKPRESSURE_BOUNDARY of the framed sink, counted in messages)
SinkBoundary == 2

(***************************************************************************)
(* rmpv::Value, restricted to nil, integer, string and array.              *)
(* An integer is rmpv's Integer: PosInt(u64) (neg = FALSE) or NegInt(i64)  *)
(* (neg = TRUE), b holding the 8 bytes of the number. A string is rmpv's   *)
(* Utf8String: the raw bytes, valid UTF-8 or not.                          *)
(***************************************************************************)
Nil == [t |-> "nil"]

IntV(neg, b) == [t |-> "int", neg |-> neg, b |-> b]

StrV(b) == [t |-> "str", b |-> b]

ArrV(a) == [t |-> "arr", a |-> a]

\* the u64 with the value n, for a small natural n
U64(n) == <<0, 0, 0, 0, (n \div 16777216) % 256, (n \div 65536) % 256, (n \div 256) % 256, n % 256>>

\* the u32 with the value n, for a small natural n
U32(n) == <<(n \div 16777216) % 256, (n \div 65536) % 256, (n \div 256) % 256, n % 256>>

\* Integer::from(u64)
PosInt(n) == IntV(FALSE, U64(n))

\* Integer::from(i64) for -n with 0 < n <= 256: the two's complement of n
NegInt(n) == IntV(TRUE, <<255, 255, 255, 255, 255, 255, 255, 256 - n>>)

\* Integer::from(id) for a u32: zero extension
IntegerFromU32(id) == IntV(FALSE, <<0, 0, 0, 0>> \o id)

\* Integer::as_u64: Some(n) for PosInt(n), None for NegInt
as_u64(v) == IF v.neg THEN [some |-> FALSE] ELSE [some |-> TRUE, n |-> v.b]

\* `n as u32` for a u64 n: the low 32 bits
AsU32(n) == SubSeq(n, 5, 8)

AllZero(s) == \A i \in 1..Len(s) : s[i] = 0

AllFF(s) == \A i \in 1..Len(s) : s[i] = 255

\* std::str::from_utf8: the well-formed byte sequences of Unicode table 3-7
Cont(x) == x >= 128 /\ x <= 191

RECURSIVE IsUtf8(_)
IsUtf8(b) ==
  IF b = <<>> THEN TRUE
  ELSE LET n == Len(b)
           c == b[1]
       IN  IF c < 128 THEN IsUtf8(SubSeq(b, 2, n))
           ELSE IF c >= 194 /\ c <= 223
             THEN n >= 2 /\ Cont(b[2]) /\ IsUtf8(SubSeq(b, 3, n))
           ELSE IF c >= 224 /\ c <= 239
             THEN /\ n >= 3
                  /\ Cont(b[2]) /\ Cont(b[3])
                  /\ (c = 224 => b[2] >= 160)
                  /\ (c = 237 => b[2] <= 159)
                  /\ IsUtf8(SubSeq(b, 4, n))
           ELSE IF c >= 240 /\ c <= 244
             THEN /\ n >= 4
                  /\ Cont(b[2]) /\ Cont(b[3]) /\ Cont(b[4])
                  /\ (c = 240 => b[2] >= 144)
                  /\ (c = 244 => b[2] <= 143)
                  /\ IsUtf8(SubSeq(b, 5, n))
           ELSE FALSE

\* Utf8String::as_str
as_str(v) == IF IsUtf8(v.b) THEN [some |-> TRUE, s |-> v.b] ELSE [some |-> FALSE]

(***************************************************************************)
(* rmpv::encode::write_value: the most compact MessagePack representation. *)
(* Every string is written in the str format, so that read_value reads the *)
(* same string back; the messages that are packed hold UTF-8 strings only, *)
(* a string that is not UTF-8 only occurs in the input of a decode.        *)
(***************************************************************************)
\* rmp::encode::write_uint
write_uint(b) ==
  IF AllZero(SubSeq(b, 1, 7)) /\ b[8] < 128 THEN <<b[8]>>
  ELSE IF AllZero(SubSeq(b, 1, 7)) THEN <<204, b[8]>>
  ELSE IF AllZero(SubSeq(b, 1, 6)) THEN <<205>> \o SubSeq(b, 7, 8)
  ELSE IF AllZero(SubSeq(b, 1, 4)) THEN <<206>> \o SubSeq(b, 5, 8)
  ELSE <<207>> \o b

\* rmp::encode::write_sint, for a negative number
write_sint(b) ==
  IF AllFF(SubSeq(b, 1, 7)) /\ b[8] >= 224 THEN <<b[8]>>
  ELSE IF AllFF(SubSeq(b, 1, 7)) /\ b[8] >= 128 THEN <<208, b[8]>>
  ELSE IF AllFF(SubSeq(b, 1, 6)) /\ b[7] >= 128 THEN <<209>> \o SubSeq(b, 7, 8)
  ELSE IF AllFF(SubSeq(b, 1, 4)) /\ b[5] >= 128 THEN <<210>> \o SubSeq(b, 5, 8)
  ELSE <<211>> \o b

\* rmp::encode::write_str_len
write_str_len(n) ==
  IF n < 32 THEN <<160 + n>>
  ELSE IF n < 256 THEN <<217, n>>
  ELSE <<218, n \div 256, n % 256>>

\* rmp::encode::write_array_len
write_array_len(n) ==
  IF n < 16 THEN <<144 + n>>
  ELSE <<220, n \div 256, n % 256>>

RECURSIVE write_value(_)
RECURSIVE write_values(_)
write_value(v) ==
  CASE v.t = "nil" -> <<192>>
    [] v.t = "int" -> IF v.neg THEN write_sint(v.b) ELSE write_uint(v.b)
    [] v.t = "str" -> write_str_len(Len(v.b)) \o v.b
    [] v.t = "arr" -> write_array_len(Len(v.a)) \o write_values(v.a)

write_values(a) ==
  IF a = <<>> THEN <<>> ELSE write_value(Head(a)) \o write_values(Tail(a))

(***************************************************************************)
(* rmpv::decode::read_value on an in-memory reader: one value is read from *)
(* bytes starting at pos. The result is [ok |-> TRUE, v, next] or          *)
(* [ok |-> FALSE, err], err being the rmpv error raised when the input     *)
(* ends: InvalidMarkerRead or InvalidDataRead, both with UnexpectedEof.    *)
(***************************************************************************)
Pad(k, x) == [i \in 1..k |-> x]

ReadOk(v, next) == [ok |-> TRUE, v |-> v, next |-> next]

ReadErr(e) == [ok |-> FALSE, err |-> e]

Avail(bytes, pos, n) == pos + n - 1 <= Len(bytes)

\* Integer::from of an unsigned number of Len(data) bytes
UIntOf(data) == IntV(FALSE, Pad(8 - Len(data), 0) \o data)

\* Integer::from of a signed number of Len(data) bytes: sign extension
SIntOf(data) ==
  IF data[1] >= 128 THEN IntV(TRUE, Pad(8 - Len(data), 255) \o data)
  ELSE IntV(FALSE, Pad(8 - Len(data), 0) \o data)

\* the integer formats whose n data bytes follow the marker
read_int(bytes, pos, n, signed) ==
  IF ~Avail(bytes, pos + 1, n) THEN ReadErr("InvalidDataRead")
  ELSE LET data == SubSeq(bytes, pos + 1, pos + n)
       IN  ReadOk(IF signed THEN SIntOf(data) ELSE UIntOf(data), pos + 1 + n)

\* the string data of len bytes starting at pos
read_str_data(bytes, pos, len) ==
  IF ~Avail(bytes, pos, len) THEN ReadErr("InvalidDataRead")
  ELSE ReadOk(StrV(SubSeq(bytes, pos, pos + len - 1)), pos + len)

\* a length of n bytes following the marker at pos
read_len(bytes, pos, n) ==
  IF ~Avail(bytes, pos + 1, n) THEN [ok |-> FALSE]
  ELSE [ok |-> TRUE,
        len |-> IF n = 1 THEN bytes[pos + 1] ELSE bytes[pos + 1] * 256 + bytes[pos + 2]]

RECURSIVE read_value(_, _)
RECURSIVE read_array_data(_, _, _, _)
read_value(bytes, pos) ==
  IF pos > Len(bytes) THEN ReadErr("InvalidMarkerRead")
  ELSE LET m == bytes[pos] IN
    CASE m < 128 -> ReadOk(UIntOf(<<m>>), pos + 1)
      [] m >= 224 -> ReadOk(SIntOf(<<m>>), pos + 1)
      [] m = 192 \/ m = 193 -> ReadOk(Nil, pos + 1)
      [] m = 204 -> read_int(bytes, pos, 1, FALSE)
      [] m = 205 -> read_int(bytes, pos, 2, FALSE)
      [] m = 206 -> read_int(bytes, pos, 4, FALSE)
      [] m = 207 -> read_int(bytes, pos, 8, FALSE)
      [] m = 208 -> read_int(bytes, pos, 1, TRUE)
      [] m = 209 -> read_int(bytes, pos, 2, TRUE)
      [] m = 210 -> read_int(bytes, pos, 4, TRUE)
      [] m = 211 -> read_int(bytes, pos, 8, TRUE)
      [] m >= 160 /\ m <= 191 -> read_str_data(bytes, pos + 1, m - 160)
      [] m = 217 \/ m = 218 ->
           LET l == read_len(bytes, pos, m - 216)
           IN  IF l.ok THEN read_str_data(bytes, pos + 1 + (m - 216), l.len)
               ELSE ReadErr("InvalidDataRead")
      [] m >= 144 /\ m <= 159 -> read_array_data(bytes, pos + 1, m - 144, <<>>)
      [] m = 220 ->
           LET l == read_len(bytes, pos, 2)
           IN  IF l.ok THEN read_array_data(bytes, pos + 3, l.len, <<>>)
               ELSE ReadErr("InvalidDataRead")
      \* booleans, floats, binaries, maps and extensions are not modelled
      [] OTHER -> ReadErr("Unmodelled")

\* the n elements of an array, read one after the other
read_array_data(bytes, pos, n, acc) ==
  IF n = 0 THEN ReadOk(ArrV(acc), pos)
  ELSE LET r == read_value(bytes, pos)
       IN  IF r.ok THEN read_array_data(bytes, r.next, n - 1, Append(acc, r.v))
           ELSE r

(***************************************************************************)
(* message.rs: the Message model and its codec.                            *)
(*   Request      [variant, id (u32), method (UTF-8 bytes), params]        *)
(*   Response     [variant, id (u32), result], result = [ok, v]:           *)
(*                Ok(v) when ok, Err(v) otherwise                          *)
(*   Notification [variant, method, params]                                *)
(* A decode returns Ok(message), Err(DecodeError) or panics.               *)
(***************************************************************************)
REQUEST_MESSAGE == U64(0)

RESPONSE_MESSAGE == U64(1)

NOTIFICATION_MESSAGE == U64(2)

Request(id, method, params) ==
  [variant |-> "Request", id |-> id, method |-> method, params |-> params]

Response(id, result) == [variant |-> "Response", id |-> id, result |-> result]

Notification(method, params) ==
  [variant |-> "Notification", method |-> method, params |-> params]

ResultOk(v) == [ok |-> TRUE, v |-> v]

ResultErr(v) == [ok |-> FALSE, v |-> v]

Ok(m) == [kind |-> "Ok", msg |-> m]

Err(e) == [kind |-> "Err", err |-> e]

\* an index out of bounds aborts the thread
Panic == [kind |-> "Panic"]

\* From<rmpv::decode::Error> for DecodeError: the input ended inside a value
DecodeErrorFrom(e) ==
  IF e \in {"InvalidMarkerRead", "InvalidDataRead"} THEN "Truncated" ELSE e

\* Notification::decode
Notification_decode(array) ==
  IF Len(array) < 3 THEN Err("Invalid")
  ELSE IF array[2].t # "str" THEN Err("Invalid")
  ELSE IF ~as_str(array[2]).some THEN Err("Invalid")
  ELSE IF array[3].t # "arr" THEN Err("Invalid")
  ELSE Ok(Notification(as_str(array[2]).s, array[3].a))

\* Request::decode
Request_decode(array) ==
  IF Len(array) < 4 THEN Err("Invalid")
  ELSE IF array[2].t # "int" THEN Err("Invalid")
  ELSE IF ~as_u64(array[2]).some THEN Err("Invalid")
  ELSE IF array[3].t # "str" THEN Err("Invalid")
  ELSE IF ~as_str(array[3]).some THEN Err("Invalid")
  ELSE IF array[4].t # "arr" THEN Err("Invalid")
  ELSE Ok(Request(AsU32(as_u64(array[2]).n), as_str(array[3]).s, array[4].a))

\* Response::decode deciding on element 3 instead of element 2
Response_decode_Elem3(array) ==
  IF Len(array) < 2 THEN Err("Invalid")
  ELSE IF array[2].t # "int" THEN Err("Invalid")
  ELSE IF ~as_u64(array[2]).some THEN Err("Invalid")
  ELSE LET id == AsU32(as_u64(array[2]).n)
       IN  IF Len(array) < 4 THEN Panic
           ELSE IF array[4] # Nil THEN Ok(Response(id, ResultOk(array[4])))
           ELSE Ok(Response(id, ResultErr(array[3])))

\* Response::decode; array[3] of the source is index 4 here, and reading it
\* in an array of 3 elements is out of bounds
Response_decode(array) ==
  IF Len(array) < 2 THEN Err("Invalid")
  ELSE IF array[2].t # "int" THEN Err("Invalid")
  ELSE IF ~as_u64(array[2]).some THEN Err("Invalid")
  ELSE LET id == AsU32(as_u64(array[2]).n)
       IN  IF Len(array) < 3 THEN Panic
           ELSE IF array[3] = Nil
             THEN IF Len(array) < 4 THEN Panic
                  ELSE Ok(Response(id, ResultOk(array[4])))
           ELSE Ok(Response(id, ResultErr(array[3])))

\* Message::decode comparing the discriminant as a u32
DecodeValue_U32Tag(msg) ==
  IF msg.t # "arr" THEN Err("Invalid")
  ELSE LET array == msg.a
       IN  IF Len(array) < 3 THEN Err("Invalid")
           ELSE IF array[1].t # "int" THEN Err("Invalid")
           ELSE LET msg_type == as_u64(array[1])
                IN  IF msg_type.some /\ AsU32(msg_type.n) = AsU32(REQUEST_MESSAGE)
                      THEN Request_decode(array)
                    ELSE IF msg_type.some /\ AsU32(msg_type.n) = AsU32(RESPONSE_MESSAGE)
                      THEN Response_decode(array)
                    ELSE IF msg_type.some /\ AsU32(msg_type.n) = AsU32(NOTIFICATION_MESSAGE)
                      THEN Notification_decode(array)
                    ELSE Err("Invalid")

\* the part of Message::decode that follows read_value
DecodeValue(msg) ==
  IF msg.t # "arr" THEN Err("Invalid")
  ELSE LET array == msg.a
       IN  IF Len(array) < 3 THEN Err("Invalid")
           ELSE IF array[1].t # "int" THEN Err("Invalid")
           ELSE LET msg_type == as_u64(array[1])
                IN  IF msg_type.some /\ msg_type.n = REQUEST_MESSAGE
                      THEN Request_decode(array)
                    ELSE IF msg_type.some /\ msg_type.n = RESPONSE_MESSAGE
                      THEN Response_decode(array)
                    ELSE IF msg_type.some /\ msg_type.n = NOTIFICATION_MESSAGE
                      THEN Notification_decode(array)
                    ELSE Err("Invalid")

\* Message::decode reporting every failure of read_value as Invalid
Message_decode_ReadInvalid(bytes) ==
  LET r == read_value(bytes, 1)
  IN  IF ~r.ok THEN Err("Invalid") ELSE DecodeValue(r.v)

\* Message::decode on a reader holding bytes
Message_decode(bytes) ==
  LET r == read_value(bytes, 1)
  IN  IF ~r.ok THEN Err(DecodeErrorFrom(r.err)) ELSE DecodeValue(r.v)

\* Message::as_value putting the result of a Response first
as_value_Swapped(m) ==
  CASE m.variant = "Request" ->
         ArrV(<<IntV(FALSE, REQUEST_MESSAGE), IntegerFromU32(m.id),
                StrV(m.method), ArrV(m.params)>>)
    [] m.variant = "Response" ->
         LET error == IF m.result.ok THEN Nil ELSE m.result.v
             result == IF m.result.ok THEN m.result.v ELSE Nil
         IN  ArrV(<<IntV(FALSE, RESPONSE_MESSAGE), IntegerFromU32(m.id), result, error>>)
    [] m.variant = "Notification" ->
         ArrV(<<IntV(FALSE, NOTIFICATION_MESSAGE), StrV(m.method), ArrV(m.params)>>)

\* Message::as_value
as_value(m) ==
  CASE m.variant = "Request" ->
         ArrV(<<IntV(FALSE, REQUEST_MESSAGE), IntegerFromU32(m.id),
                StrV(m.method), ArrV(m.params)>>)
    [] m.variant = "Response" ->
         LET error == IF m.result.ok THEN Nil ELSE m.result.v
             result == IF m.result.ok THEN m.result.v ELSE Nil
         IN  ArrV(<<IntV(FALSE, RESPONSE_MESSAGE), IntegerFromU32(m.id), error, result>>)
    [] m.variant = "Notification" ->
         ArrV(<<IntV(FALSE, NOTIFICATION_MESSAGE), StrV(m.method), ArrV(m.params)>>)

\* Message::pack
pack(m) == write_value(as_value(m))

(***************************************************************************)
(* The inputs of the codec.                                                *)
(***************************************************************************)
\* 2^32 + 1, which needs the 64-bit format
Big == IntV(FALSE, <<0, 0, 0, 1, 0, 0, 0, 1>>)

\* "a", "dummy", the two-byte character U+00E9, and a string that is not UTF-8
StrA == <<97>>

StrDummy == <<100, 117, 109, 109, 121>>

StrE9 == <<195, 169>>

StrBad == <<255>>

\* one integer per MessagePack integer format
IntSamples ==
  {PosInt(0), PosInt(127), PosInt(128), PosInt(256), PosInt(65536), Big,
   NegInt(1), NegInt(32), NegInt(33), NegInt(129),
   IntV(TRUE, <<255, 255, 255, 255, 255, 254, 0, 0>>),
   IntV(TRUE, <<255, 255, 255, 254, 0, 0, 0, 0>>)}

\* the values a result or an error of a Response is drawn from
Payloads ==
  IntSamples \cup {Nil, StrV(<<>>), StrV(StrA), StrV(StrE9), ArrV(<<>>),
                   ArrV(<<Nil, PosInt(1)>>), ArrV(<<ArrV(<<StrV(StrA)>>)>>)}

\* the values params are made of
ParamValues == {Nil, PosInt(1), NegInt(33), Big, StrV(StrA), ArrV(<<Nil>>)}

SeqsUpTo(S, n) == UNION {[1..k -> S] : k \in 0..n}

Ids == {U32(0), U32(1234), <<1, 0, 0, 0>>, <<255, 255, 255, 255>>}

Methods == {<<>>, StrDummy, StrE9}

\* the constructible messages
Messages ==
  {Request(id, me, pa) : id \in Ids, me \in Methods, pa \in SeqsUpTo(ParamValues, MaxParams)}
  \cup {Response(id, r) : id \in Ids, r \in {ResultOk(v) : v \in Payloads} \cup {ResultErr(v) : v \in Payloads}}
  \cup {Notification(me, pa) : me \in Methods, pa \in SeqsUpTo(ParamValues, MaxParams)}

\* the elements of a decoded outer array
Elems ==
  {PosInt(0), PosInt(1), PosInt(2), PosInt(3), NegInt(1), Big, Nil,
   StrV(StrA), StrV(StrBad), ArrV(<<>>)}

\* the values Message::decode may read: any element, or an array of them
WireValues == Elems \cup {ArrV(a) : a \in SeqsUpTo(Elems, MaxArrayLen)}

(***************************************************************************)
(* server.rs: the protocol engine of one connection.                       *)
(*                                                                         *)
(* A task is the future returned by the Service: [op, id], op numbering    *)
(* the dispatched operations (requests and notifications) in arrival       *)
(* order. What a poll of it yields is the Service's choice.                *)
(*                                                                         *)
(* The stream is the framed connection. Its inbound half yields the next   *)
(* message, the end of the stream, "not ready" or an error; its outbound   *)
(* half is the write buffer wbuf and the messages written to the socket,   *)
(* wire. An item of wbuf or wire is [op, from, msg]: the message and, as   *)
(* history tags, the operation it answers and the Response the Service     *)
(* returned for it. An error of the inbound half is recorded in inbound as *)
(* [variant |-> "Error", err].                                             *)
(***************************************************************************)
VARIABLES
  request_tasks,       \* Protocol.request_tasks: id -> task
  notification_tasks,  \* Protocol.notification_tasks: sequence of tasks
  done,                \* Protocol.done
  wbuf,                \* the write buffer of Protocol.stream
  wire,                \* what Protocol.stream has written to the socket
  pc,                  \* position in Protocol::poll
  iter,                \* entries the running loop has not visited yet
  doneList,            \* the local `done` of the running loop
  ret,                 \* the last value returned by Protocol::poll
  panic,               \* the reason of the abort when pc = "panicked"
  ops,                 \* history: the operations dispatched and their fate
  polls,               \* history: polls of each operation in this tick
  inbound              \* history: the messages the stream has yielded

evars == <<request_tasks, notification_tasks, done, wbuf, wire, pc, iter,
           doneList, ret, panic, ops, polls, inbound>>

(***************************************************************************)
(* State of the codec: the operation applied (each run applies one), its   *)
(* input, the bytes handed to Message::decode and the result.              *)
(***************************************************************************)
VARIABLES cop, cin, cbytes, cres

cvars == <<cop, cin, cbytes, cres>>

vars == <<cop, cin, cbytes, cres, request_tasks, notification_tasks, done,
          wbuf, wire, pc, iter, doneList, ret, panic, ops, polls, inbound>>

CodecInit ==
  /\ cop = "none"
  /\ cin = Nil
  /\ cbytes = <<>>
  /\ cres = Err("none")

\* m.pack() followed by Message::decode
PackDecode ==
  /\ cop = "none"
  /\ \E m \in Messages :
       /\ cop' = "pack_decode"
       /\ cin' = m
       /\ cbytes' = pack(m)
       /\ cres' = Message_decode(pack(m))
  /\ UNCHANGED evars

\* m.pack(), the last byte dropped, followed by Message::decode
PackTruncateDecode ==
  /\ cop = "none"
  /\ \E m \in Messages :
       /\ cop' = "truncate_decode"
       /\ cin' = m
       /\ cbytes' = SubSeq(pack(m), 1, Len(pack(m)) - 1)
       /\ cres' = Message_decode(SubSeq(pack(m), 1, Len(pack(m)) - 1))
  /\ UNCHANGED evars

\* Message::decode of the encoding of an arbitrary value
DecodeWire ==
  /\ cop = "none"
  /\ \E v \in WireValues :
       /\ cop' = "decode"
       /\ cin' = v
       /\ cbytes' = write_value(v)
       /\ cres' = Message_decode(write_value(v))
  /\ UNCHANGED evars

CodecNext == PackDecode \/ PackTruncateDecode \/ DecodeWire

EngineIds == {U32(0), U32(1)}

\* the messages a peer sends
InMsgs ==
  {Request(id, StrA, <<>>) : id \in EngineIds}
  \cup {Notification(StrA, <<>>), Response(U32(0), ResultOk(Nil))}

\* the Responses a Service may complete a request with, a success and a
\* failure: it need not keep the id of the request
ServiceResponses ==
  {Response(U32(0), ResultOk(PosInt(1))), Response(U32(1), ResultErr(StrV(StrA)))}

\* Protocol::new
EngineInit ==
  /\ request_tasks = <<>>
  /\ notification_tasks = <<>>
  /\ done = FALSE
  /\ wbuf = <<>>
  /\ wire = <<>>
  /\ pc = "idle"
  /\ iter = {}
  /\ doneList = <<>>
  /\ ret = "none"
  /\ panic = "none"
  /\ ops = <<>>
  /\ polls = <<>>
  /\ inbound = <<>>

Init == CodecInit /\ EngineInit

\* a panic unwinds out of Protocol::poll: the engine is never polled again
Abort(reason) ==
  /\ pc' = "panicked"
  /\ panic' = reason

\* the scheduler calls Protocol::poll
PollStart ==
  /\ pc = "idle"
  /\ pc' = "drain"
  /\ polls' = [o \in DOMAIN ops |-> 0]
  /\ UNCHANGED <<cvars, request_tasks, notification_tasks, done, wbuf, wire, iter,
                 doneList, ret, panic, ops, inbound>>

\* Protocol::handle_msg keeping the entry the table already holds for the id
\* (`entry(id).or_insert(response)`): the new operation is dropped instead
handle_msg_KeepOld(msg) ==
  CASE msg.variant = "Request" ->
         /\ request_tasks' = [id \in DOMAIN request_tasks \cup {msg.id} |->
                                IF id \in DOMAIN request_tasks THEN request_tasks[id]
                                ELSE [op |-> Len(ops) + 1, id |-> msg.id]]
         /\ ops' = Append([o \in DOMAIN ops |->
                             IF msg.id \in DOMAIN request_tasks /\ request_tasks[msg.id].op = o
                               THEN [ops[o] EXCEPT !.fate = "replaced"]
                             ELSE ops[o]],
                          [kind |-> "request", id |-> msg.id, fate |-> "pending"])
         /\ polls' = Append(polls, 0)
         /\ UNCHANGED notification_tasks
    [] msg.variant = "Notification" ->
         /\ notification_tasks' = Append(notification_tasks, [op |-> Len(ops) + 1])
         /\ ops' = Append(ops, [kind |-> "notification", fate |-> "pending"])
         /\ polls' = Append(polls, 0)
         /\ UNCHANGED request_tasks
    [] msg.variant = "Response" ->
         UNCHANGED <<request_tasks, notification_tasks, ops, polls>>

\* Protocol::handle_msg dispatching an inbound Response like a Request with
\* its id, instead of ignoring it
handle_msg_ResponseAsRequest(msg) ==
  CASE msg.variant \in {"Request", "Response"} ->
         /\ request_tasks' = [id \in DOMAIN request_tasks \cup {msg.id} |->
                                IF id = msg.id THEN [op |-> Len(ops) + 1, id |-> msg.id]
                                ELSE request_tasks[id]]
         /\ ops' = Append([o \in DOMAIN ops |->
                             IF msg.id \in DOMAIN request_tasks /\ request_tasks[msg.id].op = o
                               THEN [ops[o] EXCEPT !.fate = "replaced"]
                             ELSE ops[o]],
                          [kind |-> "request", id |-> msg.id, fate |-> "pending"])
         /\ polls' = Append(polls, 0)
         /\ UNCHANGED notification_tasks
    [] msg.variant = "Notification" ->
         /\ notification_tasks' = Append(notification_tasks, [op |-> Len(ops) + 1])
         /\ ops' = Append(ops, [kind |-> "notification", fate |-> "pending"])
         /\ polls' = Append(polls, 0)
         /\ UNCHANGED request_tasks

\* Protocol::handle_msg
handle_msg(msg) ==
  CASE msg.variant = "Request" ->
         /\ request_tasks' = [id \in DOMAIN request_tasks \cup {msg.id} |->
                                IF id = msg.id THEN [op |-> Len(ops) + 1, id |-> msg.id]
                                ELSE request_tasks[id]]
         /\ ops' = Append([o \in DOMAIN ops |->
                             IF msg.id \in DOMAIN request_tasks /\ request_tasks[msg.id].op = o
                               THEN [ops[o] EXCEPT !.fate = "replaced"]
                             ELSE ops[o]],
                          [kind |-> "request", id |-> msg.id, fate |-> "pending"])
         /\ polls' = Append(polls, 0)
         /\ UNCHANGED notification_tasks
    [] msg.variant = "Notification" ->
         /\ notification_tasks' = Append(notification_tasks, [op |-> Len(ops) + 1])
         /\ ops' = Append(ops, [kind |-> "notification", fate |-> "pending"])
         /\ polls' = Append(polls, 0)
         /\ UNCHANGED request_tasks
    [] msg.variant = "Response" ->
         UNCHANGED <<request_tasks, notification_tasks, ops, polls>>

\* Protocol::poll, one turn of the loop: stream.poll() yields a message
DrainMsg ==
  /\ pc = "drain"
  /\ Len(inbound) < MaxInbound
  /\ \E msg \in InMsgs :
       /\ handle_msg(msg)
       /\ inbound' = Append(inbound, msg)
  /\ UNCHANGED <<cvars, done, wbuf, wire, pc, iter, doneList, ret, panic>>

\* Protocol::poll: stream.poll() is not ready, the loop ends and
\* process_notifications starts
DrainNotReady ==
  /\ pc = "drain"
  /\ pc' = "notifications"
  /\ iter' = 1..Len(notification_tasks)
  /\ doneList' = <<>>
  /\ UNCHANGED <<cvars, request_tasks, notification_tasks, done, wbuf, wire, ret,
                 panic, ops, polls, inbound>>

\* Protocol::poll: stream.poll() yields the end of the stream
DrainClosed ==
  /\ pc = "drain"
  /\ Abort("shutdown is not implemented")
  /\ UNCHANGED <<cvars, request_tasks, notification_tasks, done, wbuf, wire, iter,
                 doneList, ret, ops, polls, inbound>>

\* Protocol::poll skipping a message the stream reports an error for, and
\* going on with the drain
DrainError_Continue ==
  /\ pc = "drain"
  /\ \E e \in {"Invalid", "Io"} :
       inbound' = Append(inbound, [variant |-> "Error", err |-> e])
  /\ UNCHANGED <<cvars, request_tasks, notification_tasks, done, wbuf, wire, pc, iter,
                 doneList, ret, panic, ops, polls>>

\* Protocol::poll: stream.poll() yields an error (a message that is Invalid,
\* or an I/O error), and the unwrap panics
DrainError ==
  /\ pc = "drain"
  /\ \E e \in {"Invalid", "Io"} :
       /\ Abort(e)
       /\ inbound' = Append(inbound, [variant |-> "Error", err |-> e])
  /\ UNCHANGED <<cvars, request_tasks, notification_tasks, done, wbuf, wire, iter,
                 doneList, ret, ops, polls>>

\* the fate of operation o is recorded, and one more poll of it counted
Polled(o, fate) ==
  /\ ops' = [ops EXCEPT ![o].fate = fate]
  /\ polls' = [polls EXCEPT ![o] = @ + 1]

\* Vec::remove
Remove(seq, idx) == SubSeq(seq, 1, idx - 1) \o SubSeq(seq, idx + 1, Len(seq))

\* the loop without `.rev()`: the indexes are removed in increasing order,
\* each removal shifting the entries the later indexes stand for
RECURSIVE RemoveDone_Forward(_, _)
RemoveDone_Forward(tasks, dn) ==
  IF dn = <<>> THEN tasks
  ELSE RemoveDone_Forward(Remove(tasks, dn[1]), SubSeq(dn, 2, Len(dn)))

\* the loop `for idx in done.iter().rev() { notification_tasks.remove(*idx) }`
RECURSIVE RemoveDone(_, _)
RemoveDone(tasks, dn) ==
  IF dn = <<>> THEN tasks
  ELSE RemoveDone(Remove(tasks, dn[Len(dn)]), SubSeq(dn, 1, Len(dn) - 1))

\* the entry the loop of process_notifications visits next
NextIdx == CHOOSE i \in iter : \A j \in iter : i <= j

\* process_notifications answering a completed notification as if it were a
\* request: a Response is queued for it
NotifReady_Sends ==
  /\ pc = "notifications" /\ iter # {}
  /\ Polled(notification_tasks[NextIdx].op, "ok")
  /\ doneList' = Append(doneList, NextIdx)
  /\ iter' = iter \ {NextIdx}
  /\ wbuf' = Append(wbuf, [op |-> notification_tasks[NextIdx].op,
                           from |-> Response(U32(0), ResultOk(Nil)),
                           msg |-> Response(U32(0), ResultOk(Nil))])
  /\ UNCHANGED <<cvars, request_tasks, notification_tasks, done, wire, pc, ret,
                 panic, inbound>>

\* process_notifications: task.poll() is Ready(Ok(()))
NotifReady ==
  /\ pc = "notifications" /\ iter # {}
  /\ Polled(notification_tasks[NextIdx].op, "ok")
  /\ doneList' = Append(doneList, NextIdx)
  /\ iter' = iter \ {NextIdx}
  /\ UNCHANGED <<cvars, request_tasks, notification_tasks, done, wbuf, wire, pc, ret,
                 panic, inbound>>

\* process_notifications: task.poll() is NotReady
NotifNotReady ==
  /\ pc = "notifications" /\ iter # {}
  /\ Polled(notification_tasks[NextIdx].op, "pending")
  /\ iter' = iter \ {NextIdx}
  /\ UNCHANGED <<cvars, request_tasks, notification_tasks, done, wbuf, wire, pc,
                 doneList, ret, panic, inbound>>

\* process_notifications: task.poll() is Ready(Err(e)), which panics
NotifAppError ==
  /\ pc = "notifications" /\ iter # {}
  /\ Polled(notification_tasks[NextIdx].op, "err")
  /\ Abort("application error")
  /\ UNCHANGED <<cvars, request_tasks, notification_tasks, done, wbuf, wire, iter,
                 doneList, ret, inbound>>

\* process_notifications: task.poll() is Err(io), and the unwrap panics
NotifIoError ==
  /\ pc = "notifications" /\ iter # {}
  /\ Polled(notification_tasks[NextIdx].op, "io")
  /\ Abort("Io")
  /\ UNCHANGED <<cvars, request_tasks, notification_tasks, done, wbuf, wire, iter,
                 doneList, ret, inbound>>

\* process_notifications: the loop is over, the done entries are removed and
\* process_requests starts
NotifEnd ==
  /\ pc = "notifications" /\ iter = {}
  /\ notification_tasks' = RemoveDone(notification_tasks, doneList)
  /\ pc' = "requests"
  /\ iter' = DOMAIN request_tasks
  /\ doneList' = <<>>
  /\ UNCHANGED <<cvars, request_tasks, done, wbuf, wire, ret, panic, ops, polls, inbound>>

\* process_requests sending the Response as the Service returned it,
\* without `response.id = *id`
ReqReady_KeepId ==
  /\ pc = "requests"
  /\ \E id \in iter, response \in ServiceResponses, k \in 0..Len(wbuf) :
       /\ Len(wbuf) < SinkBoundary => k = 0
       /\ Len(wbuf) - k < SinkBoundary
       /\ Polled(request_tasks[id].op, "ok")
       /\ doneList' = Append(doneList, id)
       /\ wire' = wire \o SubSeq(wbuf, 1, k)
       /\ wbuf' = Append(SubSeq(wbuf, k + 1, Len(wbuf)),
                         [op |-> request_tasks[id].op,
                          from |-> response,
                          msg |-> response])
       /\ iter' = iter \ {id}
  /\ UNCHANGED <<cvars, request_tasks, notification_tasks, done, pc, ret, panic, inbound>>

\* process_requests: task.poll() is Ready(Ok(response)) and the sink takes
\* the Response. start_send first flushes k messages when the buffer has
\* reached the boundary.
ReqReady ==
  /\ pc = "requests"
  /\ \E id \in iter, response \in ServiceResponses, k \in 0..Len(wbuf) :
       /\ Len(wbuf) < SinkBoundary => k = 0
       /\ Len(wbuf) - k < SinkBoundary
       /\ Polled(request_tasks[id].op, "ok")
       /\ doneList' = Append(doneList, id)
       /\ wire' = wire \o SubSeq(wbuf, 1, k)
       /\ wbuf' = Append(SubSeq(wbuf, k + 1, Len(wbuf)),
                         [op |-> request_tasks[id].op,
                          from |-> response,
                          msg |-> [response EXCEPT !.id = id]])
       /\ iter' = iter \ {id}
  /\ UNCHANGED <<cvars, request_tasks, notification_tasks, done, pc, ret, panic, inbound>>

\* process_requests: task.poll() is Ready(Ok(response)) and start_send is not
\* ready: the buffer is still at the boundary after flushing k messages
ReqSinkFull ==
  /\ pc = "requests"
  /\ \E id \in iter, k \in 0..Len(wbuf) :
       /\ Len(wbuf) - k >= SinkBoundary
       /\ Polled(request_tasks[id].op, "ok")
       /\ doneList' = Append(doneList, id)
       /\ wire' = wire \o SubSeq(wbuf, 1, k)
       /\ wbuf' = SubSeq(wbuf, k + 1, Len(wbuf))
       /\ Abort("the sink is full")
  /\ UNCHANGED <<cvars, request_tasks, notification_tasks, done, iter, ret, inbound>>

\* process_requests: task.poll() is Ready(Ok(response)) and start_send is an
\* I/O error, and the unwrap panics
ReqSendIoError ==
  /\ pc = "requests"
  /\ Len(wbuf) >= SinkBoundary
  /\ \E id \in iter :
       /\ Polled(request_tasks[id].op, "ok")
       /\ doneList' = Append(doneList, id)
       /\ Abort("Io")
  /\ UNCHANGED <<cvars, request_tasks, notification_tasks, done, wbuf, wire, iter,
                 ret, inbound>>

\* process_requests: task.poll() is NotReady
ReqNotReady ==
  /\ pc = "requests"
  /\ \E id \in iter :
       /\ Polled(request_tasks[id].op, "pending")
       /\ iter' = iter \ {id}
  /\ UNCHANGED <<cvars, request_tasks, notification_tasks, done, wbuf, wire, pc,
                 doneList, ret, panic, inbound>>

\* process_requests: task.poll() is Ready(Err(e)), which panics
ReqAppError ==
  /\ pc = "requests"
  /\ \E id \in iter :
       /\ Polled(request_tasks[id].op, "err")
       /\ Abort("application error")
  /\ UNCHANGED <<cvars, request_tasks, notification_tasks, done, wbuf, wire, iter,
                 doneList, ret, inbound>>

\* process_requests: task.poll() is Err(io), and the unwrap panics
ReqIoError ==
  /\ pc = "requests"
  /\ \E id \in iter :
       /\ Polled(request_tasks[id].op, "io")
       /\ Abort("Io")
  /\ UNCHANGED <<cvars, request_tasks, notification_tasks, done, wbuf, wire, iter,
                 doneList, ret, inbound>>

\* process_requests without the removal of the done entries: a completed
\* request stays in the table
ReqEnd_KeepDone ==
  /\ pc = "requests" /\ iter = {}
  /\ pc' = "flush"
  /\ doneList' = <<>>
  /\ UNCHANGED <<cvars, request_tasks, notification_tasks, done, wbuf, wire, iter, ret,
                 panic, ops, polls, inbound>>

\* process_requests: the loop is over, the done entries are removed
ReqEnd ==
  /\ pc = "requests" /\ iter = {}
  /\ request_tasks' = [id \in DOMAIN request_tasks \ {doneList[i] : i \in DOMAIN doneList} |->
                         request_tasks[id]]
  /\ pc' = "flush"
  /\ doneList' = <<>>
  /\ UNCHANGED <<cvars, notification_tasks, done, wbuf, wire, iter, ret, panic, ops,
                 polls, inbound>>

\* Protocol::flush driving the sink only when no request is pending
Flush_WhenIdle ==
  /\ pc = "flush"
  /\ \E k \in 0..Len(wbuf) :
       /\ DOMAIN request_tasks # {} => k = 0
       /\ wire' = wire \o SubSeq(wbuf, 1, k)
       /\ wbuf' = SubSeq(wbuf, k + 1, Len(wbuf))
       /\ done' = (k = Len(wbuf))
  /\ pc' = "idle"
  /\ ret' = "NotReady"
  /\ UNCHANGED <<cvars, request_tasks, notification_tasks, iter, doneList, panic,
                 ops, polls, inbound>>

\* Protocol::poll returning Ready(()) once nothing is in flight and the
\* buffer is written out, although the stream is still open
Flush_ReadyWhenDone ==
  /\ pc = "flush"
  /\ \E k \in 0..Len(wbuf) :
       /\ wire' = wire \o SubSeq(wbuf, 1, k)
       /\ wbuf' = SubSeq(wbuf, k + 1, Len(wbuf))
       /\ done' = (k = Len(wbuf))
       /\ ret' = IF k = Len(wbuf) /\ DOMAIN request_tasks = {} /\ notification_tasks = <<>>
                   THEN "Ready" ELSE "NotReady"
  /\ pc' = "idle"
  /\ UNCHANGED <<cvars, request_tasks, notification_tasks, iter, doneList, panic,
                 ops, polls, inbound>>

\* Protocol::flush: poll_complete writes k messages of the buffer, and is
\* ready when the buffer is empty; then Protocol::poll returns Ok(NotReady)
Flush ==
  /\ pc = "flush"
  /\ \E k \in 0..Len(wbuf) :
       /\ wire' = wire \o SubSeq(wbuf, 1, k)
       /\ wbuf' = SubSeq(wbuf, k + 1, Len(wbuf))
       /\ done' = (k = Len(wbuf))
  /\ pc' = "idle"
  /\ ret' = "NotReady"
  /\ UNCHANGED <<cvars, request_tasks, notification_tasks, iter, doneList, panic,
                 ops, polls, inbound>>

\* Protocol::flush: poll_complete is an I/O error, and the unwrap panics
FlushIoError ==
  /\ pc = "flush"
  /\ Abort("Io")
  /\ UNCHANGED <<cvars, request_tasks, notification_tasks, done, wbuf, wire, iter,
                 doneList, ret, ops, polls, inbound>>

Next ==
  \/ PollStart
  \/ DrainMsg \/ DrainNotReady \/ DrainClosed \/ DrainError
  \/ NotifReady \/ NotifNotReady \/ NotifAppError \/ NotifIoError \/ NotifEnd
  \/ ReqReady \/ ReqSinkFull \/ ReqSendIoError \/ ReqNotReady \/ ReqAppError
  \/ ReqIoError \/ ReqEnd
  \/ Flush \/ FlushIoError

Spec == Init /\ [][Next]_vars

\* Protocol::flush when the socket takes the whole buffer
FlushAll == Flush /\ wbuf' = <<>>

\* the engine on a connection that stays open and has no I/O error, with a
\* Service whose operations complete successfully or stay pending, and a
\* sink that accepts every Response
NextLive ==
  \/ PollStart
  \/ DrainMsg \/ DrainNotReady
  \/ NotifReady \/ NotifNotReady \/ NotifEnd
  \/ ReqReady \/ ReqNotReady \/ ReqEnd
  \/ Flush

\* the scheduler keeps polling the engine, Protocol::poll runs to its end,
\* and the socket takes the buffer again and again
Fairness ==
  /\ WF_vars(PollStart)
  /\ WF_vars(DrainNotReady)
  /\ WF_vars(NotifReady \/ NotifNotReady)
  /\ WF_vars(NotifEnd)
  /\ WF_vars(ReqReady \/ ReqNotReady)
  /\ WF_vars(ReqEnd)
  /\ WF_vars(Flush)
  /\ SF_vars(FlushAll)

SpecLive == Init /\ [][NextLive]_vars /\ Fairness

\* the codec on its own: one operation applied to one input
SpecCodec == Init /\ [][CodecNext]_vars

(***************************************************************************)
(* Properties of the codec, checked under SpecCodec.                       *)
(***************************************************************************)
\* a Response whose result is Err(nil)
IsErrNil(m) == m.variant = "Response" /\ ~m.result.ok /\ m.result.v = Nil

\* C1 as stated: for every constructible message m, decoding the bytes of
\* m.pack() returns a message equal to m
C1_RoundTripAll == cop = "pack_decode" => cres = Ok(cin)

\* C1, amended: decoding the bytes of m.pack() returns m for every
\* constructible m other than a Response whose result is Err(nil); such a
\* Response decodes as the Response of the same id whose result is Ok(nil)
C1_RoundTrip ==
  cop = "pack_decode" =>
    cres = Ok(IF IsErrNil(cin) THEN Response(cin.id, ResultOk(Nil)) ELSE cin)

C1_Witness ==
  /\ cop = "pack_decode"
  /\ cin.variant = "Request" /\ cin.id = <<255, 255, 255, 255>>
  /\ Len(cin.params) = MaxParams /\ cin.params[1] = Big
  /\ cres = Ok(cin)

\* the least length of the outer array of each variant
MinLen(tag) == IF tag = PosInt(2) THEN 3 ELSE 4

Tags == {PosInt(0), PosInt(1), PosInt(2)}

\* C2: an outer array shorter than the least length of its variant (4 for a
\* Request or a Response, 3 for a Notification) is decoded as Invalid,
\* whatever its elements are
C2_ArityInvalid ==
  (/\ cop = "decode" /\ cin.t = "arr"
   /\ \/ Len(cin.a) < 3
      \/ cin.a[1] \in Tags /\ Len(cin.a) < MinLen(cin.a[1]))
  => cres = Err("Invalid")

\* a non-negative integer that fits in 32 bits
FitsU32(v) == v.t = "int" /\ ~v.neg /\ AllZero(SubSeq(v.b, 1, 4))

\* C3: an array of full length tagged as a Request or a Response is decoded
\* successfully only when element 1 is a non-negative integer that fits in
\* 32 bits, the decoded id being that integer; it is Invalid otherwise
C3_IdRange ==
  (/\ cop = "decode" /\ cin.t = "arr" /\ Len(cin.a) >= 4
   /\ cin.a[1] \in {PosInt(0), PosInt(1)})
  => /\ cres.kind = "Ok" => FitsU32(cin.a[2]) /\ IntegerFromU32(cres.msg.id) = cin.a[2]
     /\ ~FitsU32(cin.a[2]) => cres = Err("Invalid")

\* C4: a value that is not an array, or whose element 0 is not an integer
\* of {0, 1, 2}, is decoded as Invalid; an array of at least 3 elements whose
\* element 0 is 0, 1 or 2 gets the result of the Request, Response or
\* Notification decoder respectively
C4_Discriminant ==
  cop = "decode" =>
    /\ cin.t # "arr" => cres = Err("Invalid")
    /\ (cin.t = "arr" /\ Len(cin.a) >= 1 /\ cin.a[1] \notin Tags) => cres = Err("Invalid")
    /\ (cin.t = "arr" /\ Len(cin.a) >= 3 /\ cin.a[1] \in Tags) =>
         /\ cres = (CASE cin.a[1] = PosInt(0) -> Request_decode(cin.a)
                      [] cin.a[1] = PosInt(1) -> Response_decode(cin.a)
                      [] cin.a[1] = PosInt(2) -> Notification_decode(cin.a))
         /\ cres.kind = "Ok" =>
              cres.msg.variant = (CASE cin.a[1] = PosInt(0) -> "Request"
                                    [] cin.a[1] = PosInt(1) -> "Response"
                                    [] cin.a[1] = PosInt(2) -> "Notification")

C4_Witness ==
  /\ cop = "decode" /\ cin.t = "arr" /\ Len(cin.a) = 4
  /\ cin.a[1] = Big /\ cin.a[2] = PosInt(1) /\ cin.a[3] = StrV(StrA) /\ cin.a[4] = ArrV(<<>>)
  /\ cres = Err("Invalid")

\* C5: decoding the encoding of a message without its last byte is Truncated
C5_Truncated == cop = "truncate_decode" => cres = Err("Truncated")

C5_Witness ==
  /\ cop = "truncate_decode"
  /\ cin = Request(U32(1234), StrDummy, <<>>)
  /\ Len(cbytes) = Len(pack(cin)) - 1
  /\ cres = Err("Truncated")

\* C6: a Response made from Ok(v) is packed as [1, id, nil, v] and decoded
\* back to Ok(v); one made from Err(e), e not nil, is packed as [1, id, e, nil]
\* and decoded back to Err(e); a decoded Response array with a nil element 2
\* is a success whose result is element 3, and with any other element 2 a
\* failure whose payload is element 2, whatever element 3 is
C6_Exclusivity ==
  /\ (cop = "pack_decode" /\ cin.variant = "Response" /\ cin.result.ok) =>
       /\ read_value(cbytes, 1).v =
            ArrV(<<PosInt(1), IntegerFromU32(cin.id), Nil, cin.result.v>>)
       /\ cres = Ok(Response(cin.id, ResultOk(cin.result.v)))
  /\ (cop = "pack_decode" /\ cin.variant = "Response" /\ ~cin.result.ok /\ cin.result.v # Nil) =>
       /\ read_value(cbytes, 1).v =
            ArrV(<<PosInt(1), IntegerFromU32(cin.id), cin.result.v, Nil>>)
       /\ cres = Ok(Response(cin.id, ResultErr(cin.result.v)))
  /\ (/\ cop = "decode" /\ cin.t = "arr" /\ Len(cin.a) >= 4
      /\ cin.a[1] = PosInt(1) /\ cin.a[2].t = "int" /\ ~cin.a[2].neg) =>
       /\ cres.kind = "Ok"
       /\ cres.msg.result = IF cin.a[3] = Nil THEN ResultOk(cin.a[4]) ELSE ResultErr(cin.a[3])

C6_Witness ==
  /\ cop = "decode" /\ cin.t = "arr" /\ Len(cin.a) = 4
  /\ cin.a[1] = PosInt(1) /\ cin.a[3] = StrV(StrA) /\ cin.a[4] = PosInt(3)
  /\ cres = Ok(Response(U32(2), ResultErr(StrV(StrA))))

(***************************************************************************)
(* Properties of the engine, checked under Spec.                           *)
(***************************************************************************)
\* every message the sink has accepted, oldest first
Accepted == wire \o wbuf

\* the operations still in the task table or in the notification set
InFlight ==
  {request_tasks[id].op : id \in DOMAIN request_tasks}
  \cup {notification_tasks[i].op : i \in DOMAIN notification_tasks}

\* C7: the engine does not abort when a request completes while the sink
\* refuses another message
C7_SinkFullNotFatal == ~(pc = "panicked" /\ panic = "the sink is full")

\* C8: the Response of every request whose operation completed successfully
\* has been accepted by the sink (from where the flush writes it out); a
\* completed request is never left without its Response queued or written
C8_NoResponseDropped ==
  \A o \in DOMAIN ops :
    (ops[o].kind = "request" /\ ops[o].fate = "ok") =>
      \E i \in DOMAIN Accepted :
        Accepted[i].op = o /\ Accepted[i].msg.id = ops[o].id

\* C9: an operation completing with an application error leaves the other
\* operations in flight: the engine goes on polling them
C9_ErrorIsolation ==
  \A o \in DOMAIN ops :
    (ops[o].fate = "err" /\ \E other \in InFlight : other # o /\ ops[other].fate = "pending")
      => pc # "panicked"

\* C10: a request with id i whose operation completed with an application
\* error is answered by a failure Response with id i, and a notification
\* whose operation completed with an application error is dropped: nothing
\* is sent for it and the engine goes on
C10_ErrorResponse ==
  \A o \in DOMAIN ops :
    ops[o].fate = "err" =>
      IF ops[o].kind = "request"
        THEN \E i \in DOMAIN Accepted :
               /\ Accepted[i].op = o
               /\ Accepted[i].msg.id = ops[o].id
               /\ ~Accepted[i].msg.result.ok
        ELSE pc # "panicked" /\ \A i \in DOMAIN Accepted : Accepted[i].op # o

\* C11: every Response the sink has accepted carries the id of the Request
\* its operation was dispatched for, whatever id the Service returned
C11_IdCorrelation ==
  \A i \in DOMAIN Accepted :
    /\ Accepted[i].op \in DOMAIN ops
    /\ Accepted[i].msg.id = ops[Accepted[i].op].id
    /\ Accepted[i].msg.result = Accepted[i].from.result

C11_Witness ==
  \E i \in DOMAIN wire :
    /\ wire[i].from.id # ops[wire[i].op].id
    /\ wire[i].msg.id = ops[wire[i].op].id

\* the operation o was in the task table when a Request with its id was
\* dispatched
Replaced(o) == ops[o].fate = "replaced"

\* the requests dispatched after o with the id of o
Later(o) == {n \in DOMAIN ops : n > o /\ ops[n].kind = "request" /\ ops[n].id = ops[o].id}

\* the operation that replaced o: the first of them
Replacer(o) == CHOOSE n \in Later(o) : \A m \in Later(o) : n <= m

\* after being replaced, o is out of the table, unpolled and unanswered; of
\* o and the operation that replaced it, at most one Response is accepted
ReplacedIsGone(o) ==
  /\ o \notin InFlight
  /\ polls[o] = 0
  /\ \A i \in DOMAIN Accepted : Accepted[i].op # o
  /\ Later(o) # {}
  /\ Cardinality({i \in DOMAIN Accepted : Accepted[i].op \in {o, Replacer(o)}}) <= 1

\* C12: a Request dispatched with the id of a pending entry replaces it; the
\* replaced operation is never polled again and no Response is sent for it,
\* the Response with that id being the one of the operation that replaced it
C12_IdReuse ==
  [][/\ \A o \in DOMAIN ops : Replaced(o) => Replaced(o)'
     /\ \A o \in DOMAIN ops' : Replaced(o)' => ReplacedIsGone(o)']_vars

C12_Witness ==
  \E o \in DOMAIN ops :
    /\ Replaced(o)
    /\ \E i \in DOMAIN wire : wire[i].msg.id = ops[o].id /\ wire[i].op = o + 1
    /\ Len(wire) = 1 /\ wbuf = <<>> /\ pc = "idle"

(***************************************************************************)
(* Properties of the engine on a healthy connection, checked under         *)
(* SpecLive.                                                               *)
(***************************************************************************)
\* the Response of operation o has been written to the socket
Written(o) == \E i \in DOMAIN wire : wire[i].op = o

\* o1 and o2 are requests with distinct ids, o1 dispatched first and still
\* pending in the table, o2 completed
Overtakes(o1, o2) ==
  /\ o1 < o2 /\ o2 \in DOMAIN ops
  /\ ops[o1].kind = "request" /\ ops[o2].kind = "request"
  /\ ops[o1].id # ops[o2].id
  /\ ops[o1].fate = "pending" /\ o1 \in InFlight
  /\ ops[o2].fate = "ok"

\* C13: of two requests with distinct ids, the second, once its operation
\* has completed, gets its Response written while the first is still pending
C13_DispatchIsolation ==
  \A o2 \in 1..MaxInbound : (\E o1 \in 1..MaxInbound : Overtakes(o1, o2)) ~> Written(o2)

C13_Witness ==
  \E o1, o2 \in DOMAIN ops :
    Overtakes(o1, o2) /\ Written(o2) /\ ~Written(o1) /\ pc = "idle"

(***************************************************************************)
(* Further properties of the engine, checked under Spec.                   *)
(***************************************************************************)
\* the notification operations that completed successfully
NotifDone == {o \in DOMAIN ops : ops[o].kind = "notification" /\ ops[o].fate = "ok"}

\* C14: no Response is queued or written for a notification: every accepted
\* Response belongs to a request operation, the steps of
\* process_notifications leave the sink and the request table alone, and at
\* the end of process_notifications the completed notifications are out of
\* the notification set
C14_NotificationNoResponse ==
  [][/\ \A i \in DOMAIN Accepted' : ops'[Accepted'[i].op].kind = "request"
     /\ pc = "notifications" =>
          /\ Accepted' = Accepted
          /\ request_tasks' = request_tasks
          /\ pc' = "requests" => NotifDone' \cap InFlight' = {}]_vars

C14_Witness ==
  /\ pc = "idle"
  /\ \E o \in NotifDone : o \notin InFlight
  /\ \E o \in InFlight : ops[o].kind = "notification" /\ ops[o].fate = "pending"
  /\ Accepted = <<>>


\* the step takes a Response from the inbound stream
TakesResponse ==
  /\ Len(inbound') = Len(inbound) + 1
  /\ inbound'[Len(inbound')].variant = "Response"

\* C15: the step that takes an inbound Response dispatches no operation,
\* leaves the request table, the notification set and the sink as they were,
\* does not abort, and leaves the engine in the drain loop
C15_ResponseIgnored ==
  [][TakesResponse =>
       /\ ops' = ops /\ polls' = polls
       /\ request_tasks' = request_tasks
       /\ notification_tasks' = notification_tasks
       /\ wbuf' = wbuf /\ wire' = wire
       /\ panic' = panic
       /\ pc = "drain" /\ pc' = "drain"]_vars

C15_Witness ==
  \E i \in DOMAIN inbound :
    /\ inbound[i].variant = "Response"
    /\ i > 1 /\ inbound[i - 1].variant = "Request" /\ inbound[i - 1].id = inbound[i].id
    /\ i < Len(inbound) /\ inbound[i + 1].variant = "Notification"
    /\ Len(ops) = 2 /\ ops[1].fate = "pending"
    /\ pc = "drain"

\* C16: a call of Protocol::poll that gets past the drain of an open stream
\* and returns, returns NotReady: the value returned is never Ready and never
\* an Err, with the task table empty or not and the buffer written out or not
C16_NeverFinal ==
  [][/\ ret' \in {"none", "NotReady"}
     /\ (pc # "idle" /\ pc' = "idle") => (pc = "flush" /\ ret' = "NotReady")
     /\ ret = "NotReady" => ret' = "NotReady"]_vars

C16_Witness ==
  /\ pc = "idle" /\ ret = "NotReady"
  /\ done /\ wbuf = <<>> /\ wire # <<>>
  /\ DOMAIN request_tasks = {} /\ notification_tasks = <<>>
  /\ \E i \in DOMAIN inbound : inbound[i].variant = "Notification"

\* C17: when the stream reports its end while the task table and the
\* notification set are empty, the engine does not abort
C17_CleanShutdown ==
  ~(/\ pc = "panicked" /\ panic = "shutdown is not implemented"
    /\ DOMAIN request_tasks = {} /\ notification_tasks = <<>>)

\* what the stream yielded that handle_msg dispatches to the Service
Dispatchable(m) == m.variant \in {"Request", "Notification"}

\* the operation op (an entry of ops) was dispatched for the message m
DispatchedFor(op, m) ==
  IF m.variant = "Request"
    THEN op.kind = "request" /\ op.id = m.id
    ELSE op.kind = "notification"

\* C18: an error the stream reports during the drain ends the connection:
\* it is the last thing taken from the stream, the engine has aborted with
\* it and takes no further step; the operations dispatched are those of
\* the Requests and Notifications received before it, one each, in arrival
\* order, and none for the error
C18_DecodeIoFatal ==
  [][/\ pc # "panicked"
     /\ \A i \in DOMAIN inbound' :
          inbound'[i].variant = "Error" =>
            /\ i = Len(inbound')
            /\ pc' = "panicked" /\ panic' = inbound'[i].err
     /\ LET D == SelectSeq(inbound', Dispatchable)
        IN /\ Len(ops') = Len(D)
           /\ \A o \in DOMAIN D : DispatchedFor(ops'[o], D[o])]_vars

C18_Witness ==
  /\ pc = "panicked" /\ panic = "Invalid"
  /\ Len(inbound) = 3 /\ inbound[3].variant = "Error"
  /\ inbound[1].variant = "Notification" /\ inbound[2].variant = "Request"
  /\ Len(ops) = 2 /\ ops[1].kind = "notification" /\ ops[2].kind = "request"
  /\ \A o \in DOMAIN ops : polls[o] = 0 /\ ops[o].fate = "pending"

\* the elements of a sequence
Range(seq) == {seq[i] : i \in DOMAIN seq}

\* the operation of a table entry is still pending
StillPending(t) == ops[t.op].fate = "pending"

\* the entry t has been visited by the loop of this tick: polled once, and
\* listed in done exactly if it completed
Visited(t, key) ==
  /\ polls[t.op] = 1
  /\ ops[t.op].fate \in {"pending", "ok"}
  /\ ops[t.op].fate = "ok" <=> key \in Range(doneList)

\* the entry t has not been polled in this tick
Unvisited(t) == polls[t.op] = 0 /\ StillPending(t)

\* where a tick stands: no operation is polled twice, a pending operation is
\* in its table under its id, the notifications are in dispatch order; the
\* loops poll each entry once; at the end of the tick the tables hold
\* exactly the pending operations, each polled once
PerTickState ==
  /\ \A o \in DOMAIN ops : polls[o] <= 1 /\ (ops[o].fate = "pending" => o \in InFlight)
  /\ \A id \in DOMAIN request_tasks :
       LET t == request_tasks[id]
       IN t.id = id /\ ops[t.op].kind = "request" /\ ops[t.op].id = id
  /\ \A i, j \in DOMAIN notification_tasks :
       /\ ops[notification_tasks[i].op].kind = "notification"
       /\ i < j => notification_tasks[i].op < notification_tasks[j].op
  /\ pc = "drain" => \A o \in InFlight : polls[o] = 0 /\ ops[o].fate = "pending"
  /\ pc = "notifications" =>
       /\ \A i \in DOMAIN notification_tasks :
            IF i \in iter THEN Unvisited(notification_tasks[i])
            ELSE Visited(notification_tasks[i], i)
       /\ \A id \in DOMAIN request_tasks : Unvisited(request_tasks[id])
  /\ pc = "requests" =>
       /\ \A i \in DOMAIN notification_tasks :
            polls[notification_tasks[i].op] = 1 /\ StillPending(notification_tasks[i])
       /\ \A id \in DOMAIN request_tasks :
            IF id \in iter THEN Unvisited(request_tasks[id])
            ELSE Visited(request_tasks[id], id)
  /\ pc \in {"flush", "idle"} =>
       \A o \in InFlight : polls[o] = 1 /\ ops[o].fate = "pending"

\* C19: in a tick each operation in the tables after the drain is polled
\* once; the end of each loop removes exactly the entries that completed
\* and keeps the pending ones, with their ids and in their order; an
\* operation that has completed is not polled again
C19_PerTickAdvance ==
  [][/\ PerTickState'
     /\ (pc = "notifications" /\ pc' = "requests") =>
          notification_tasks' = SelectSeq(notification_tasks, StillPending)
     /\ (pc = "requests" /\ pc' = "flush") =>
          /\ DOMAIN request_tasks' =
               {id \in DOMAIN request_tasks : StillPending(request_tasks[id])}
          /\ \A id \in DOMAIN request_tasks' : request_tasks'[id] = request_tasks[id]
     /\ \A o \in DOMAIN ops :
          ops[o].fate \notin {"pending", "replaced"} =>
            ops'[o].fate = ops[o].fate /\ polls'[o] <= polls[o]]_vars

C19_Witness ==
  /\ pc = "idle"
  /\ Len(ops) = 3 /\ \A o \in 1..3 : ops[o].kind = "notification" /\ polls[o] = 1
  /\ ops[1].fate = "pending" /\ ops[2].fate = "ok" /\ ops[3].fate = "pending"
  /\ notification_tasks = <<[op |-> 1], [op |-> 3]>>

\* the Requests the stream has yielded
Received == {j \in DOMAIN inbound : inbound[j].variant = "Request"}

\* C20: every Response the sink has accepted has the id of a Request
\* received before, no operation has two Responses, and there are no more
\* Responses than Requests received
C20_ResponsesFromRequests ==
  /\ \A i \in DOMAIN Accepted : \E j \in Received : inbound[j].id = Accepted[i].msg.id
  /\ \A i, j \in DOMAIN Accepted : Accepted[i].op = Accepted[j].op => i = j
  /\ Len(Accepted) <= Cardinality(Received)

C20_Witness ==
  /\ Len(wire) = 2 /\ wire[1].msg.id = wire[2].msg.id /\ wire[1].op # wire[2].op
  /\ Cardinality(Received) = 2
  /\ \E j \in DOMAIN inbound : inbound[j].variant = "Notification"

=============================================================================
